---- MODULE Spec2Model ----
(***************************************************************************)
(* Model of malgebra's checked reducible fraction CheckRdc<T>              *)
(* (src/src/reducible.rs) over a checked scalar T.                         *)
(*                                                                         *)
(* The scalar is the generic parameter of the crate: the crate declares    *)
(* only the contract (CheckGcd, Zero, One in src/src/lib.rs and the        *)
(* `&T op &T -> Option<T>` bounds of every impl).  It is instantiated here  *)
(* with a two's-complement signed integer of range MinT..MaxT whose        *)
(* checked operators behave like Rust's checked_mul / checked_add /        *)
(* checked_sub / checked_div (None on overflow and on division by zero,    *)
(* truncating quotient otherwise) and whose gcd is the non-negative        *)
(* greatest common divisor (None for gcd(0,0) and when it does not fit).   *)
(***************************************************************************)
EXTENDS Integers, Sequences, FiniteSets, TLC

\* ------------------------------------------------------------------ bounds
\* Largest scalar value; the scalar range is MinT..MaxT (two's complement).
MaxT == 4

MinT == -MaxT - 1

T == MinT..MaxT

\* ------------------------------------------------------- Option<T> values
None == <<>>

Some(v) == <<v>>

Val(o) == o[1]

\* ------------------------------------------------------ the checked scalar
Abs(a) == IF a < 0 THEN -a ELSE a

InT(v) == MinT <= v /\ v <= MaxT

\* T::ZERO, T::ONE and One::non_zero()
ZERO == 0

ONE == 1

non_zero == ONE

is_zero(a) == a = ZERO

\* the result of a checked operator whose exact value is v
Fit(v) == IF InT(v) THEN Some(v) ELSE None

\* quotient rounded toward zero, as integer division does in Rust
TruncDiv(a, b) ==
  IF (a < 0) = (b < 0) THEN Abs(a) \div Abs(b) ELSE -(Abs(a) \div Abs(b))

CheckedMul(a, b) == Fit(a * b)

CheckedAdd(a, b) == Fit(a + b)

CheckedSub(a, b) == Fit(a - b)

CheckedDiv(a, b) == IF b = 0 THEN None ELSE Fit(TruncDiv(a, b))

RECURSIVE NatGcd(_, _)
NatGcd(a, b) == IF b = 0 THEN a ELSE NatGcd(b, a % b)

\* CheckGcd::gcd: the non-negative gcd, None when undefined or not in range
CheckGcd(a, b) ==
  IF a = 0 /\ b = 0 THEN None ELSE Fit(NatGcd(Abs(a), Abs(b)))

\* Option::expect("Never fails") / unwrap on a value that is Some
Expect(o) == Val(o)

\* (a / &gcd).expect("Never fails")
DivExpect(a, gcd) == Expect(CheckedDiv(a, gcd))

\* --------------------------------------------------------------- fractions
\* struct CheckRdc { num, denom }
CheckRdc(n, d) == [num |-> n, denom |-> d]

\* every pair of scalars (the struct itself does not constrain its fields)
Fractions == [num : T, denom : T]

\* the two assignments of simplify, gcd being what self.num().gcd(..) gave
SimplifyBy(f, gcd) ==
  IF gcd = None THEN f
  ELSE CheckRdc(DivExpect(f.num, Val(gcd)), DivExpect(f.denom, Val(gcd)))

\* simplify with the assignment to denom left out
simplifyNumOnly(f) ==
  LET gcd == CheckGcd(f.num, f.denom)
  IN IF gcd = None THEN f ELSE CheckRdc(DivExpect(f.num, Val(gcd)), f.denom)

\* CheckRdc::simplify, as the value of the fraction after the call
simplify(f) == SimplifyBy(f, CheckGcd(f.num, f.denom))

\* outcome of an operation: kind is "some" (a fraction, in val), "bool" or
\* "ord" (a comparison result, in tag), "none" (the absent-result marker),
\* "abort" (panic) or "unit" (nothing returned);
\* self and rhs are the operands as the call leaves them; esc counts the
\* executions of the escalation step.
NoFrac == CheckRdc(0, 0)

Outcome(kind, val, tag, esc, s, r) ==
  [kind |-> kind, val |-> val, tag |-> tag, esc |-> esc, self |-> s, rhs |-> r]

RetSome(val, esc, s, r) == Outcome("some", val, "", esc, s, r)

RetNone(esc, s, r) == Outcome("none", NoFrac, "", esc, s, r)

Panic(s, r) == Outcome("abort", NoFrac, "", 0, s, r)

\* the caller's operands are untouched by an operator that works on clones
OnClones(o, self, rhs) == [o EXCEPT !.self = self, !.rhs = rhs]

\* new without the call of simplify
newUnsimplified(num, denom, s, r) ==
  IF is_zero(denom) THEN Panic(s, r)
  ELSE RetSome(CheckRdc(num, denom), 0, s, r)

\* new without the check of the denominator
newUnchecked(num, denom, s, r) ==
  RetSome(simplify(CheckRdc(num, denom)), 0, s, r)

\* CheckRdc::new(num, denom); s and r are the fractions the caller holds
new(num, denom, s, r) ==
  IF is_zero(denom) THEN Panic(s, r)
  ELSE RetSome(simplify(CheckRdc(num, denom)), 0, s, r)

\* Default::default()
default == CheckRdc(non_zero, non_zero)

\* <CheckRdc<T> as Zero>::ZERO
ZERO_FRAC == CheckRdc(ZERO, ONE)

\* ------------------------------------------------------------- comparison
RetBool(b, esc, s, r) ==
  Outcome("bool", NoFrac, IF b THEN "true" ELSE "false", esc, s, r)

\* eq after the overflow: new_self and other2 are the simplified clones
EqEscalated(self, other, new_self, other2) ==
  LET denom_gcd == CheckGcd(new_self.denom, other2.denom)
      lhs == CheckedMul(new_self.num, DivExpect(other2.denom, Val(denom_gcd)))
      rhs == CheckedMul(other2.num, DivExpect(new_self.denom, Val(denom_gcd)))
  IN IF denom_gcd = None THEN Panic(self, other)
     ELSE IF lhs = None THEN Panic(self, other)
     ELSE IF rhs = None THEN Panic(self, other)
     ELSE RetBool(Val(lhs) = Val(rhs), 1, self, other)

\* <CheckRdc<T> as PartialEq>::eq; tag is "true" or "false"
eq(self, other) ==
  LET lhs == CheckedMul(self.num, other.denom)
      rhs == CheckedMul(self.denom, other.num)
  IN IF lhs # None /\ rhs # None
       THEN RetBool(Val(lhs) = Val(rhs), 0, self, other)
     ELSE EqEscalated(self, other, simplify(self), simplify(other))

\* <T as PartialOrd>::partial_cmp on the scalar
ScalarCmp(a, b) == IF a < b THEN "Less" ELSE IF a = b THEN "Equal" ELSE "Greater"

RetOrd(a, b, esc, s, r) == Outcome("ord", NoFrac, ScalarCmp(a, b), esc, s, r)

\* partial_cmp after the overflow: new_self and other2 are the simplified
\* clones; the gcd is taken from the caller's self, not from new_self
CmpEscalated(self, other, new_self, other2) ==
  LET denom_gcd == CheckGcd(self.denom, other2.denom)
      lhs == CheckedMul(new_self.num, DivExpect(other2.denom, Val(denom_gcd)))
      rhs == CheckedMul(other2.num, DivExpect(new_self.denom, Val(denom_gcd)))
  IN IF denom_gcd = None THEN RetNone(1, self, other)
     ELSE IF lhs = None THEN RetNone(1, self, other)
     ELSE IF rhs = None THEN RetNone(1, self, other)
     ELSE RetOrd(Val(lhs), Val(rhs), 1, self, other)

\* <CheckRdc<T> as PartialOrd>::partial_cmp; tag is the Ordering
partial_cmp(self, other) ==
  LET lhs == CheckedMul(self.num, other.denom)
      rhs == CheckedMul(self.denom, other.num)
  IN IF lhs # None /\ rhs # None
       THEN RetOrd(Val(lhs), Val(rhs), 0, self, other)
     ELSE CmpEscalated(self, other, simplify(self), simplify(other))

\* --------------------------------------------- fraction * fraction, / fraction
\* mul, last step: the product of the cancelled operands s2 and r2, which
\* are what the call leaves in the mutable operands
MulMutCancelled(s2, r2) ==
  LET num == CheckedMul(s2.num, r2.num)
      denom == CheckedMul(s2.denom, r2.denom)
  IN IF num = None THEN RetNone(1, s2, r2)
     ELSE IF denom = None THEN RetNone(1, s2, r2)
     ELSE RetSome(CheckRdc(Val(num), Val(denom)), 1, s2, r2)

\* mul after the overflow: s1 and r1 are the simplified operands
MulMutEscalated(s1, r1) ==
  LET s_num_r_denom_gcd == CheckGcd(s1.num, r1.denom)
      s_denom_r_num_gcd == CheckGcd(s1.denom, r1.num)
  IN IF s_num_r_denom_gcd = None THEN RetNone(1, s1, r1)
     ELSE IF s_denom_r_num_gcd = None THEN RetNone(1, s1, r1)
     ELSE MulMutCancelled(
            CheckRdc(DivExpect(s1.num, Val(s_num_r_denom_gcd)),
                     DivExpect(s1.denom, Val(s_denom_r_num_gcd))),
            CheckRdc(DivExpect(r1.num, Val(s_denom_r_num_gcd)),
                     DivExpect(r1.denom, Val(s_num_r_denom_gcd))))

\* mul whose direct phase simplifies what it returns
MulMutSimplifying(self, rhs) ==
  LET num == CheckedMul(self.num, rhs.num)
      denom == CheckedMul(self.denom, rhs.denom)
  IN IF num # None /\ denom # None
       THEN RetSome(simplify(CheckRdc(Val(num), Val(denom))), 0, self, rhs)
     ELSE MulMutEscalated(simplify(self), simplify(rhs))

\* impl Mul<Self> for &mut CheckRdc<T>
MulMut(self, rhs) ==
  LET num == CheckedMul(self.num, rhs.num)
      denom == CheckedMul(self.denom, rhs.denom)
  IN IF num # None /\ denom # None
       THEN RetSome(CheckRdc(Val(num), Val(denom)), 0, self, rhs)
     ELSE MulMutEscalated(simplify(self), simplify(rhs))

\* mul on clones, last step: the product of the cancelled clones
MulRefCancelled(self, rhs, new_self, rhs2) ==
  LET num == CheckedMul(new_self.num, rhs2.num)
      denom == CheckedMul(new_self.denom, rhs2.denom)
  IN IF num = None THEN RetNone(1, self, rhs)
     ELSE IF denom = None THEN RetNone(1, self, rhs)
     ELSE RetSome(CheckRdc(Val(num), Val(denom)), 1, self, rhs)

\* mul on clones after the overflow: r1 is the simplified clone of rhs; the
\* gcds and the dividends of new_self are read from the caller's
\* (unsimplified) self, so the simplification of new_self is overwritten
MulRefEscalated(self, rhs, r1) ==
  LET s_num_r_denom_gcd == CheckGcd(self.num, r1.denom)
      s_denom_r_num_gcd == CheckGcd(self.denom, r1.num)
  IN IF s_num_r_denom_gcd = None THEN RetNone(1, self, rhs)
     ELSE IF s_denom_r_num_gcd = None THEN RetNone(1, self, rhs)
     ELSE MulRefCancelled(self, rhs,
            CheckRdc(DivExpect(self.num, Val(s_num_r_denom_gcd)),
                     DivExpect(self.denom, Val(s_denom_r_num_gcd))),
            CheckRdc(DivExpect(r1.num, Val(s_denom_r_num_gcd)),
                     DivExpect(r1.denom, Val(s_num_r_denom_gcd))))

\* impl Mul<Self> for &CheckRdc<T>
MulRef(self, rhs) ==
  LET num == CheckedMul(self.num, rhs.num)
      denom == CheckedMul(self.denom, rhs.denom)
  IN IF num # None /\ denom # None
       THEN RetSome(CheckRdc(Val(num), Val(denom)), 0, self, rhs)
     ELSE MulRefEscalated(self, rhs, simplify(rhs))

\* div, last step: the quotient of the cancelled operands s2 and r2, which
\* are what the call leaves in the mutable operands
DivMutCancelled(s2, r2) ==
  LET num == CheckedMul(s2.num, r2.denom)
      denom == CheckedMul(s2.denom, r2.num)
  IN IF num = None THEN RetNone(1, s2, r2)
     ELSE IF denom = None THEN RetNone(1, s2, r2)
     ELSE RetSome(CheckRdc(Val(num), Val(denom)), 1, s2, r2)

\* div with the diagonal pairing of mul in its cross-cancellation
DivMutDiagonal(s1, r1) ==
  LET s_num_r_denom_gcd == CheckGcd(s1.num, r1.denom)
      s_denom_r_num_gcd == CheckGcd(s1.denom, r1.num)
  IN IF s_num_r_denom_gcd = None THEN RetNone(1, s1, r1)
     ELSE IF s_denom_r_num_gcd = None THEN RetNone(1, s1, r1)
     ELSE DivMutCancelled(
            CheckRdc(DivExpect(s1.num, Val(s_num_r_denom_gcd)),
                     DivExpect(s1.denom, Val(s_denom_r_num_gcd))),
            CheckRdc(DivExpect(r1.num, Val(s_denom_r_num_gcd)),
                     DivExpect(r1.denom, Val(s_num_r_denom_gcd))))

\* div after the overflow: s1 and r1 are the simplified operands
DivMutEscalated(s1, r1) ==
  LET s_num_r_num_gcd == CheckGcd(s1.num, r1.num)
      s_denom_r_denom_gcd == CheckGcd(s1.denom, r1.denom)
  IN IF s_num_r_num_gcd = None THEN RetNone(1, s1, r1)
     ELSE IF s_denom_r_denom_gcd = None THEN RetNone(1, s1, r1)
     ELSE DivMutCancelled(
            CheckRdc(DivExpect(s1.num, Val(s_num_r_num_gcd)),
                     DivExpect(s1.denom, Val(s_denom_r_denom_gcd))),
            CheckRdc(DivExpect(r1.num, Val(s_num_r_num_gcd)),
                     DivExpect(r1.denom, Val(s_denom_r_denom_gcd))))

\* impl Div<Self> for &mut CheckRdc<T>
DivMut(self, rhs) ==
  LET num == CheckedMul(self.num, rhs.denom)
      denom == CheckedMul(self.denom, rhs.num)
  IN IF is_zero(rhs.num) THEN Panic(self, rhs)
     ELSE IF num # None /\ denom # None
       THEN RetSome(CheckRdc(Val(num), Val(denom)), 0, self, rhs)
     ELSE DivMutEscalated(simplify(self), simplify(rhs))

\* div on clones, last step: the quotient of the cancelled clones
DivRefCancelled(self, rhs, new_self, rhs2) ==
  LET num == CheckedMul(new_self.num, rhs2.denom)
      denom == CheckedMul(new_self.denom, rhs2.num)
  IN IF num = None THEN RetNone(1, self, rhs)
     ELSE IF denom = None THEN RetNone(1, self, rhs)
     ELSE RetSome(CheckRdc(Val(num), Val(denom)), 1, self, rhs)

\* div on clones after the overflow: new_self and r1 are the simplified
\* clones
DivRefEscalated(self, rhs, new_self, r1) ==
  LET s_num_r_num_gcd == CheckGcd(new_self.num, r1.num)
      s_denom_r_denom_gcd == CheckGcd(new_self.denom, r1.denom)
  IN IF s_num_r_num_gcd = None THEN RetNone(1, self, rhs)
     ELSE IF s_denom_r_denom_gcd = None THEN RetNone(1, self, rhs)
     ELSE DivRefCancelled(self, rhs,
            CheckRdc(DivExpect(new_self.num, Val(s_num_r_num_gcd)),
                     DivExpect(new_self.denom, Val(s_denom_r_denom_gcd))),
            CheckRdc(DivExpect(r1.num, Val(s_num_r_num_gcd)),
                     DivExpect(r1.denom, Val(s_denom_r_denom_gcd))))

\* impl Div<Self> for &CheckRdc<T>
DivRef(self, rhs) ==
  LET num == CheckedMul(self.num, rhs.denom)
      denom == CheckedMul(self.denom, rhs.num)
  IN IF is_zero(rhs.num) THEN Panic(self, rhs)
     ELSE IF num # None /\ denom # None
       THEN RetSome(CheckRdc(Val(num), Val(denom)), 0, self, rhs)
     ELSE DivRefEscalated(self, rhs, simplify(self), simplify(rhs))

\* ------------------------------------------------- fraction * scalar, / scalar
\* fraction * scalar on a clone after the overflow: new_self is the
\* simplified clone; the gcd is taken from the caller's self.denom and
\* divides the denominator of new_self
MulScalarRefEscalated(self, rhs, new_self) ==
  LET s_denom_r_num_gcd == CheckGcd(self.denom, rhs)
      denom == DivExpect(new_self.denom, Val(s_denom_r_num_gcd))
      rhs2 == DivExpect(rhs, Val(s_denom_r_num_gcd))
      num == CheckedMul(new_self.num, rhs2)
  IN IF s_denom_r_num_gcd = None THEN RetNone(1, self, self)
     ELSE IF num = None THEN RetNone(1, self, self)
     ELSE RetSome(CheckRdc(Val(num), denom), 1, self, self)

\* impl Mul<&T> for &CheckRdc<T>
MulScalarRef(self, rhs) ==
  LET direct == CheckedMul(self.num, rhs)
  IN IF direct # None
       THEN RetSome(CheckRdc(Val(direct), self.denom), 0, self, self)
     ELSE MulScalarRefEscalated(self, rhs, simplify(self))

\* fraction * scalar, last step: s2 is what the call leaves in self
MulScalarMutCancelled(s2, rhs2) ==
  LET num == CheckedMul(s2.num, rhs2)
  IN IF num = None THEN RetNone(1, s2, s2)
     ELSE RetSome(CheckRdc(Val(num), s2.denom), 1, s2, s2)

\* fraction * scalar after the overflow: s1 is the simplified self
MulScalarMutEscalated(s1, rhs) ==
  LET s_denom_r_num_gcd == CheckGcd(s1.denom, rhs)
  IN IF s_denom_r_num_gcd = None THEN RetNone(1, s1, s1)
     ELSE MulScalarMutCancelled(
            CheckRdc(s1.num, DivExpect(s1.denom, Val(s_denom_r_num_gcd))),
            DivExpect(rhs, Val(s_denom_r_num_gcd)))

\* impl Mul<&mut T> for &mut CheckRdc<T>: rhs is cloned, self is changed
MulScalarMut(self, rhs) ==
  LET direct == CheckedMul(self.num, rhs)
  IN IF direct # None
       THEN RetSome(CheckRdc(Val(direct), self.denom), 0, self, self)
     ELSE MulScalarMutEscalated(simplify(self), rhs)

\* fraction / scalar on a clone after the overflow: new_self is the
\* simplified clone; the gcd is taken from the caller's self.num and
\* divides the numerator of new_self
DivScalarRefEscalated(self, rhs, new_self) ==
  LET s_num_r_num_gcd == CheckGcd(self.num, rhs)
      num == DivExpect(new_self.num, Val(s_num_r_num_gcd))
      rhs2 == DivExpect(rhs, Val(s_num_r_num_gcd))
      denom == CheckedMul(new_self.denom, rhs2)
  IN IF s_num_r_num_gcd = None THEN RetNone(1, self, self)
     ELSE IF denom = None THEN RetNone(1, self, self)
     ELSE RetSome(CheckRdc(num, Val(denom)), 1, self, self)

\* impl Div<&T> for &CheckRdc<T>
DivScalarRef(self, rhs) ==
  LET direct == CheckedMul(self.denom, rhs)
  IN IF is_zero(rhs) THEN Panic(self, self)
     ELSE IF direct # None
       THEN RetSome(CheckRdc(self.num, Val(direct)), 0, self, self)
     ELSE DivScalarRefEscalated(self, rhs, simplify(self))

\* ------------------------------------------------------------ add and sub
\* what an escalation of add/sub leaves: ok is FALSE when a `?` of the
\* step returns None from the operator
Escalated(ok, s1, r1, self_mult, rhs_mult, new_denom) ==
  [ok |-> ok, self |-> s1, rhs |-> r1, self_mult |-> self_mult,
   rhs_mult |-> rhs_mult, new_denom |-> new_denom]

\* new_denom = (self.denom() * self_mult)?
EscalateDenom(s1, r1, self_mult, rhs_mult) ==
  LET new_denom == CheckedMul(s1.denom, self_mult)
  IN IF new_denom = None THEN Escalated(FALSE, s1, r1, 0, 0, 0)
     ELSE Escalated(TRUE, s1, r1, self_mult, rhs_mult, Val(new_denom))

\* denom_gcd and the two multipliers, s1 and r1 being the simplified operands
EscalateMults(s1, r1) ==
  LET denom_gcd == CheckGcd(s1.denom, r1.denom)
  IN IF denom_gcd = None THEN Escalated(FALSE, s1, r1, 0, 0, 0)
     ELSE EscalateDenom(s1, r1, DivExpect(r1.denom, Val(denom_gcd)),
                        DivExpect(s1.denom, Val(denom_gcd)))

\* The escalation step of add/sub: simplify both operands, take the gcd of
\* the denominators, the two multipliers and the reduced denominator.
Escalate(self, rhs) == EscalateMults(simplify(self), simplify(rhs))

\* The locals of add/sub between two steps; ret is TRUE once the operator
\* has returned None, esc counts the escalations executed so far.
Locals(ret, self, rhs, simp, sm, rm, nd, p1, p2, esc) ==
  [ret |-> ret, self |-> self, rhs |-> rhs, already_simplified |-> simp,
   self_mult |-> sm, rhs_mult |-> rm, new_denom |-> nd,
   new_num_part1 |-> p1, new_num_part2 |-> p2, esc |-> esc]

Returned(e, esc) == Locals(TRUE, e.self, e.rhs, TRUE, 0, 0, 0, 0, 0, esc)

\* the None arm of the first match, e being the escalation
StepDenomEscalated(e) ==
  IF ~e.ok THEN Returned(e, 1)
  ELSE Locals(FALSE, e.self, e.rhs, TRUE, e.self_mult, e.rhs_mult,
              e.new_denom, 0, 0, 1)

\* let mut new_denom = match self.denom() * rhs.denom() { ... }
StepDenom(self, rhs) ==
  LET direct == CheckedMul(self.denom, rhs.denom)
  IN IF direct # None
       THEN Locals(FALSE, self, rhs, FALSE, rhs.denom, self.denom,
                   Val(direct), 0, 0, 0)
     ELSE StepDenomEscalated(Escalate(self, rhs))

\* the None arm of the second match without already_simplified = true
StepPart1Forgets(l, e) ==
  LET again == CheckedMul(e.self_mult, e.self.num)
  IN IF ~e.ok THEN Returned(e, l.esc + 1)
     ELSE IF again = None THEN Returned(e, l.esc + 1)
     ELSE Locals(FALSE, e.self, e.rhs, FALSE, e.self_mult, e.rhs_mult,
                 e.new_denom, Val(again), 0, l.esc + 1)

\* the None arm of the second match, e being the escalation
StepPart1Escalated(l, e) ==
  LET again == CheckedMul(e.self_mult, e.self.num)
  IN IF ~e.ok THEN Returned(e, l.esc + 1)
     ELSE IF again = None THEN Returned(e, l.esc + 1)
     ELSE Locals(FALSE, e.self, e.rhs, TRUE, e.self_mult, e.rhs_mult,
                 e.new_denom, Val(again), 0, l.esc + 1)

\* let new_num_part1 = match self.num() * self_mult { ... }
StepPart1(l) ==
  LET direct == CheckedMul(l.self.num, l.self_mult)
  IN IF l.ret THEN l
     ELSE IF direct # None THEN [l EXCEPT !.new_num_part1 = Val(direct)]
     ELSE IF l.already_simplified THEN [l EXCEPT !.ret = TRUE]
     ELSE StepPart1Escalated(l, Escalate(l.self, l.rhs))

\* the None arm of the third match, e being the escalation: new_num_part1
\* keeps the value computed before the escalation
StepPart2Escalated(l, e) ==
  LET again == CheckedMul(e.rhs_mult, e.rhs.num)
  IN IF ~e.ok THEN Returned(e, l.esc + 1)
     ELSE IF again = None THEN Returned(e, l.esc + 1)
     ELSE Locals(FALSE, e.self, e.rhs, TRUE, e.self_mult, e.rhs_mult,
                 e.new_denom, l.new_num_part1, Val(again), l.esc + 1)

\* let new_num_part2 = match rhs_mult * rhs.num() { ... }
StepPart2(l) ==
  LET direct == CheckedMul(l.rhs_mult, l.rhs.num)
  IN IF l.ret THEN l
     ELSE IF direct # None THEN [l EXCEPT !.new_num_part2 = Val(direct)]
     ELSE IF l.already_simplified THEN [l EXCEPT !.ret = TRUE]
     ELSE StepPart2Escalated(l, Escalate(l.self, l.rhs))

\* &a + &b in add, &a - &b in sub: the only difference of the two operators
Comb(is_sub, a, b) == IF is_sub THEN CheckedSub(a, b) ELSE CheckedAdd(a, b)

\* the last line of the None arm of the fourth match
StepCombineAgain(l, e, is_sub, part1, part2) ==
  LET again == Comb(is_sub, Val(part1), Val(part2))
  IN IF part1 = None THEN RetNone(l.esc + 1, e.self, e.rhs)
     ELSE IF part2 = None THEN RetNone(l.esc + 1, e.self, e.rhs)
     ELSE IF again = None THEN RetNone(l.esc + 1, e.self, e.rhs)
     ELSE RetSome(CheckRdc(Val(again), e.new_denom), l.esc + 1, e.self, e.rhs)

\* the None arm of the fourth match, e being the escalation
StepCombineEscalated(l, e, is_sub) ==
  IF ~e.ok THEN RetNone(l.esc + 1, e.self, e.rhs)
  ELSE StepCombineAgain(l, e, is_sub, CheckedMul(e.self_mult, e.self.num),
                        CheckedMul(e.rhs_mult, e.rhs.num))

\* let new_num = match &new_num_part1 op &new_num_part2 { ... } and the
\* returned fraction
StepCombine(l, is_sub) ==
  LET direct == Comb(is_sub, l.new_num_part1, l.new_num_part2)
  IN IF l.ret THEN RetNone(l.esc, l.self, l.rhs)
     ELSE IF direct # None
       THEN RetSome(CheckRdc(Val(direct), l.new_denom), l.esc, l.self, l.rhs)
     ELSE IF l.already_simplified THEN RetNone(l.esc, l.self, l.rhs)
     ELSE StepCombineEscalated(l, Escalate(l.self, l.rhs), is_sub)

\* impl Add<Self> for &mut CheckRdc<T>
AddMut(self, rhs) ==
  StepCombine(StepPart2(StepPart1(StepDenom(self, rhs))), FALSE)

\* impl Sub<Self> for &mut CheckRdc<T>
SubMut(self, rhs) ==
  StepCombine(StepPart2(StepPart1(StepDenom(self, rhs))), TRUE)

\* impl Add<Self> for &CheckRdc<T>
AddRef(self, rhs) == OnClones(AddMut(self, rhs), self, rhs)

\* impl Sub<Self> for &CheckRdc<T>
SubRef(self, rhs) == OnClones(SubMut(self, rhs), self, rhs)

\* the operand of neg is the right operand of the subtraction
OfRhs(o) == [o EXCEPT !.self = o.rhs]

\* neg by inverting the sign of the numerator directly
NegMutFlip(self) ==
  LET n == CheckedSub(ZERO, self.num)
  IN IF n = None THEN RetNone(0, self, self)
     ELSE RetSome(CheckRdc(Val(n), self.denom), 0, self, self)

\* impl Neg for &mut CheckRdc<T>: a temporary 0/1 minus self
NegMut(self) == OfRhs(SubMut(CheckRdc(ZERO, non_zero), self))

\* impl Neg for &CheckRdc<T>
NegRef(self) == OfRhs(SubRef(ZERO_FRAC, self))

\* ------------------------------------------------------------ the program
\* A client holds two fractions x and y and applies the operations of the
\* crate to them, one call at a time.  Between calls op is "idle".  A call
\* sets op to its name, px, py and pt to its operands as they were before
\* the call (for new: px is the pair of raw arguments) and res to what it
\* returned; the client then keeps the returned fraction in x (Store) or
\* drops it (Drop).
VARIABLES x, y, op, px, py, pt, res

vars == <<x, y, op, px, py, pt, res>>

Result(o) == [kind |-> o.kind, val |-> o.val, tag |-> o.tag, esc |-> o.esc]

Unit == [kind |-> "unit", val |-> NoFrac, tag |-> "", esc |-> 0]

Idle == op = "idle"

\* a panic ends the program
Aborted == res.kind = "abort"

Init ==
  /\ x = default
  /\ y = default
  /\ op = "idle"
  /\ px = NoFrac
  /\ py = NoFrac
  /\ pt = 0
  /\ res = Unit

\* back to the client with the fractions nx and ny in its hands
Return(nx, ny) ==
  /\ op' = "idle"
  /\ x' = nx
  /\ y' = ny
  /\ px' = NoFrac
  /\ py' = NoFrac
  /\ pt' = 0
  /\ res' = Unit

\* an operation on (x, y) whose outcome is o
Binary(name, o) ==
  /\ Idle
  /\ op' = name
  /\ px' = x
  /\ py' = y
  /\ pt' = 0
  /\ res' = Result(o)
  /\ x' = o.self
  /\ y' = o.rhs

\* an operation on x (and the scalar t) whose outcome is o
Unary(name, o, t) ==
  /\ Idle
  /\ op' = name
  /\ px' = x
  /\ py' = y
  /\ pt' = t
  /\ res' = Result(o)
  /\ x' = o.self
  /\ y' = y

\* x = CheckRdc::new(n, d): a panic leaves x as it was
New ==
  \E n \in T, d \in T :
    LET o == new(n, d, x, y)
    IN /\ Idle
       /\ op' = "new"
       /\ px' = CheckRdc(n, d)
       /\ py' = y
       /\ pt' = 0
       /\ res' = Result(o)
       /\ x' = IF o.kind = "some" THEN o.val ELSE o.self
       /\ y' = o.rhs

\* x = CheckRdc::default() or x = CheckRdc::ZERO
Const == \E c \in {default, ZERO_FRAC} : Idle /\ Return(c, y)

\* std::mem::swap(&mut x, &mut y)
Swap == Idle /\ Return(y, x)

\* x = the fraction the last call returned
Store == ~Idle /\ res.kind = "some" /\ Return(res.val, y)

\* the result of the last call is dropped
Drop == ~Idle /\ ~Aborted /\ Return(x, y)

Simplify == Unary("simplify", Outcome("unit", NoFrac, "", 0, simplify(x), y), 0)

Eq == Binary("eq", eq(x, y))

PartialCmp == Binary("partial_cmp", partial_cmp(x, y))

DoMulMut == Binary("mul_mut", MulMut(x, y))

DoMulRef == Binary("mul_ref", MulRef(x, y))

DoDivMut == Binary("div_mut", DivMut(x, y))

DoDivRef == Binary("div_ref", DivRef(x, y))

DoAddMut == Binary("add_mut", AddMut(x, y))

DoAddRef == Binary("add_ref", AddRef(x, y))

DoSubMut == Binary("sub_mut", SubMut(x, y))

DoSubRef == Binary("sub_ref", SubRef(x, y))

DoMulScalarRef == \E t \in T : Unary("mul_scalar_ref", MulScalarRef(x, t), t)

DoMulScalarMut == \E t \in T : Unary("mul_scalar_mut", MulScalarMut(x, t), t)

DoDivScalarRef == \E t \in T : Unary("div_scalar_ref", DivScalarRef(x, t), t)

DoNegMut == Unary("neg_mut", NegMut(x), 0)

DoNegRef == Unary("neg_ref", NegRef(x), 0)

Next ==
  \/ New
  \/ Const
  \/ Swap
  \/ Store
  \/ Drop
  \/ Simplify
  \/ Eq
  \/ PartialCmp
  \/ DoMulMut
  \/ DoMulRef
  \/ DoDivMut
  \/ DoDivRef
  \/ DoAddMut
  \/ DoAddRef
  \/ DoSubMut
  \/ DoSubRef
  \/ DoMulScalarRef
  \/ DoMulScalarMut
  \/ DoDivScalarRef
  \/ DoNegMut
  \/ DoNegRef

Spec == Init /\ [][Next]_vars

\* ------------------------------------------------------------ type check
TypeOK ==
  /\ x \in Fractions
  /\ y \in Fractions
  /\ px \in Fractions
  /\ py \in Fractions
  /\ pt \in T
  /\ res.val \in Fractions
  /\ res.kind \in {"some", "bool", "ord", "none", "abort", "unit"}
  /\ Idle => res = Unit

\* ------------------------------------- the divisions by a computed gcd
\* A division (a / &gcd).expect("Never fails") is the pair of its dividend
\* and of the Option the gcd call returned; each operator below is the set
\* of these divisions the code of one call contains past its direct phase.
GcdDivs(a, b, gcd) == {<<a, gcd>>, <<b, gcd>>}

\* simplify: self.num and self.denom by their gcd
SimplifyDivs(f) == GcdDivs(f.num, f.denom, CheckGcd(f.num, f.denom))

BothSimplifyDivs(self, rhs) == SimplifyDivs(self) \cup SimplifyDivs(rhs)

\* eq: the denominators of the simplified clones by their gcd
EqDivs(new_self, other2) ==
  GcdDivs(other2.denom, new_self.denom,
          CheckGcd(new_self.denom, other2.denom))

\* partial_cmp: the denominators of the simplified clones by the gcd of the
\* caller's self.denom and the clone's other.denom
CmpDivs(self, new_self, other2) ==
  GcdDivs(other2.denom, new_self.denom, CheckGcd(self.denom, other2.denom))

\* the four divisions of a cross-cancellation, each gcd dividing two
\* fields; none is executed when a gcd is None
CancelDivs(a1, b1, gcd1, a2, b2, gcd2) ==
  IF gcd1 = None \/ gcd2 = None THEN {}
  ELSE GcdDivs(a1, b1, gcd1) \cup GcdDivs(a2, b2, gcd2)

\* mul by mutable reference, s1 and r1 being the simplified operands
MulMutDivs(s1, r1) ==
  CancelDivs(s1.num, r1.denom, CheckGcd(s1.num, r1.denom),
             s1.denom, r1.num, CheckGcd(s1.denom, r1.num))

\* mul by shared reference: the dividends on the left are the caller's self
MulRefDivs(self, r1) ==
  CancelDivs(self.num, r1.denom, CheckGcd(self.num, r1.denom),
             self.denom, r1.num, CheckGcd(self.denom, r1.num))

\* div, by mutable reference and on clones, s1 and r1 being simplified
DivDivs(s1, r1) ==
  CancelDivs(s1.num, r1.num, CheckGcd(s1.num, r1.num),
             s1.denom, r1.denom, CheckGcd(s1.denom, r1.denom))

\* fraction * scalar on a clone: new_self.denom and rhs by the gcd of the
\* caller's self.denom and rhs
MulScalarRefDivs(self, rhs, new_self) ==
  GcdDivs(new_self.denom, rhs, CheckGcd(self.denom, rhs))

\* fraction * scalar by mutable reference, s1 being the simplified self
MulScalarMutDivs(s1, rhs) == GcdDivs(s1.denom, rhs, CheckGcd(s1.denom, rhs))

\* fraction / scalar on a clone: new_self.num and rhs by the gcd of the
\* caller's self.num and rhs
DivScalarRefDivs(self, rhs, new_self) ==
  GcdDivs(new_self.num, rhs, CheckGcd(self.num, rhs))

\* the escalation of add and sub: the two multipliers
EscalateDivs(s1, r1) ==
  GcdDivs(r1.denom, s1.denom, CheckGcd(s1.denom, r1.denom))

\* ------------------------------------------------- vocabulary of the claims
\* a valid fraction: its denominator is not the scalar zero
Valid(f) == f.denom # ZERO

\* f represents the rational n/m (unbounded arithmetic)
Represents(f, n, m) == f.denom # 0 /\ f.num * m = f.denom * n

\* the ordering of the exact rational values of two valid fractions
ExactOrder(f, g) ==
  ScalarCmp((f.num * g.denom - g.num * f.denom) * (f.denom * g.denom), 0)

\* no integer greater than one divides both a and b
Coprime(a, b) == \A k \in 2..(MaxT + 1) : ~(a % k = 0 /\ b % k = 0)

Returned_(names) == op \in names /\ res.kind = "some"

\* C1: every fraction in existence - the operands the client holds and the
\* fraction an operation returned - has a denominator different from zero.
DenomNeverZero ==
  /\ Valid(x)
  /\ Valid(y)
  /\ res.kind = "some" => Valid(res.val)

\* C2: a result of add (sub) on valid fractions a/b and c/d represents
\* exactly a/b + c/d (a/b - c/d).
AddSubExact ==
  /\ (Returned_({"add_mut", "add_ref"}) /\ Valid(px) /\ Valid(py)) =>
       Represents(res.val, px.num * py.denom + py.num * px.denom,
                  px.denom * py.denom)
  /\ (Returned_({"sub_mut", "sub_ref"}) /\ Valid(px) /\ Valid(py)) =>
       Represents(res.val, px.num * py.denom - py.num * px.denom,
                  px.denom * py.denom)

\* C3: a result of mul (div) on valid fractions a/b and c/d represents
\* exactly (a*c)/(b*d) ((a*d)/(b*c)), in the direct phase and in the
\* cross-cancellation phase, in both reference variants.
MulDivExact ==
  /\ (Returned_({"mul_mut", "mul_ref"}) /\ Valid(px) /\ Valid(py)) =>
       Represents(res.val, px.num * py.num, px.denom * py.denom)
  /\ (Returned_({"div_mut", "div_ref"}) /\ Valid(px) /\ Valid(py)) =>
       Represents(res.val, px.num * py.denom, px.denom * py.num)

\* (2/3) * (3/2) overflows directly and is cross-cancelled to 1/1
MulDivExactWitness ==
  /\ op = "mul_mut"
  /\ px = CheckRdc(2, 3)
  /\ py = CheckRdc(3, 2)
  /\ res = [kind |-> "some", val |-> CheckRdc(1, 1), tag |-> "", esc |-> 1]

\* C5: when partial_cmp returns Some(o), o is the ordering of the exact
\* rational values of the two fractions.
CmpExact ==
  (op = "partial_cmp" /\ res.kind = "ord" /\ Valid(px) /\ Valid(py)) =>
    res.tag = ExactOrder(px, py)

\* C6: after a binary operator on mutable operands escalated, each fraction
\* operand holds the simplified form of the value it held before the call.
MutOperandsSimplified ==
  /\ (op \in {"mul_mut", "div_mut", "add_mut", "sub_mut"} /\ res.esc > 0
      /\ Valid(px) /\ Valid(py)) =>
       /\ x = simplify(px) /\ Represents(x, px.num, px.denom)
       /\ y = simplify(py) /\ Represents(y, py.num, py.denom)
  /\ (op = "mul_scalar_mut" /\ res.esc > 0 /\ Valid(px)) =>
       x = simplify(px) /\ Represents(x, px.num, px.denom)

\* the fractions CheckRdc::new returns
Constructible == {simplify(CheckRdc(n, d)) : n \in T, d \in T \ {ZERO}}

IsTrue(o) == o.kind = "bool" /\ o.tag = "true"

\* C4: eq returns true exactly when the cross products are equal in
\* unbounded arithmetic, and is reflexive, symmetric and transitive.
EqIsEquivalence ==
  (op = "eq" /\ res.kind = "bool") =>
    /\ (res.tag = "true") <=> (px.num * py.denom = px.denom * py.num)
    /\ px = py => res.tag = "true"
    /\ eq(py, px).kind = "bool" /\ eq(py, px).tag = res.tag
    /\ \A z \in Constructible :
         (res.tag = "true" /\ IsTrue(eq(py, z)) /\ eq(px, z).kind = "bool")
           => IsTrue(eq(px, z))

\* C4 on valid fractions only
EqIsEquivalenceOnValid == (Valid(px) /\ Valid(py)) => EqIsEquivalence

\* C7: new(n, d) with d # 0 represents n/d and is reduced when the scalar
\* gcd of n and d is defined, and keeps exactly n and d when it is not.
NewReduced ==
  (op = "new" /\ px.denom # ZERO) =>
    /\ res.kind = "some"
    /\ x = res.val
    /\ IF CheckGcd(px.num, px.denom) # None
         THEN /\ Represents(res.val, px.num, px.denom)
              /\ Coprime(res.val.num, res.val.denom)
         ELSE res.val = px

\* new(2, 4) is reduced to 1/2
NewReducedWitness ==
  /\ op = "new"
  /\ px = CheckRdc(2, 4)
  /\ res.kind = "some"
  /\ x = CheckRdc(1, 2)

\* C8: new(n, 0) aborts; a division by a fraction with zero numerator or by
\* the zero scalar aborts and leaves the operands as they were.
MisuseAborts ==
  /\ (op = "new" /\ px.denom = ZERO) => res.kind = "abort"
  /\ (op \in {"div_mut", "div_ref"} /\ py.num = ZERO) =>
       res.kind = "abort" /\ x = px /\ y = py
  /\ (op = "div_scalar_ref" /\ pt = ZERO) => res.kind = "abort" /\ x = px

\* an unsimplified fraction divided by 0/1 through mutable references
MisuseAbortsWitness ==
  /\ op = "div_mut"
  /\ px = CheckRdc(2, 2)
  /\ py = ZERO_FRAC
  /\ res.kind = "abort"

\* C9: simplify is idempotent and keeps the represented ratio.
SimplifyIdempotent ==
  (op = "simplify" /\ Valid(px)) =>
    simplify(x) = x /\ Represents(x, px.num, px.denom)

\* simplify on the unsimplified operator result 4/(-2)
SimplifyIdempotentWitness ==
  /\ op = "simplify"
  /\ px = CheckRdc(4, -2)
  /\ x = CheckRdc(2, -1)

\* C10: neg(x) returns what the subtraction protocol returns for 0/1 - x:
\* the additive inverse of x, or None when it overflows after escalation.
NegIsZeroMinus ==
  (op \in {"neg_mut", "neg_ref"} /\ Valid(px)) =>
    /\ res = Result(SubRef(ZERO_FRAC, px))
    /\ res.kind = "some" => Represents(res.val, -px.num, px.denom)
    /\ res.kind = "none" => res.esc = 1
    /\ res.kind \in {"some", "none"}

\* neg of the scalar minimum over one overflows even after escalation
NegIsZeroMinusWitness ==
  /\ op = "neg_mut"
  /\ px = CheckRdc(MinT, 1)
  /\ res.kind = "none"
  /\ res.esc = 1

AddSubOps == {"add_mut", "add_ref", "sub_mut", "sub_ref"}

IsSub == op \in {"sub_mut", "sub_ref"}

\* the locals l are those of an invocation that has escalated, has not
\* returned, and whose next sub-operation, of result next, overflows
OverflowsAfterEscalation(l, next) == ~l.ret /\ l.esc = 1 /\ next = None

\* the sub-operations of the second, third and fourth overflow point
Part1Of(l) == CheckedMul(l.self.num, l.self_mult)

Part2Of(l) == CheckedMul(l.rhs_mult, l.rhs.num)

NumOf(l, is_sub) == Comb(is_sub, l.new_num_part1, l.new_num_part2)

\* an overflow at one of the three later points of an invocation whose
\* locals after the first, second and third point are l1, l2 and l3
LaterOverflow(l1, l2, l3, is_sub) ==
  \/ OverflowsAfterEscalation(l1, Part1Of(l1))
  \/ OverflowsAfterEscalation(l2, Part2Of(l2))
  \/ OverflowsAfterEscalation(l3, NumOf(l3, is_sub))

AfterPart1(l1) == LaterOverflow(l1, StepPart1(l1), StepPart2(StepPart1(l1)), IsSub)

\* C11: one invocation of add or sub executes the escalation step at most
\* once, and an overflow of a sub-operation that comes after the escalation
\* makes the operator return None.
EscalatesOnce ==
  op \in AddSubOps =>
    /\ res.esc <= 1
    /\ AfterPart1(StepDenom(px, py)) => res.kind = "none" /\ res.esc = 1

\* (4/2) + (3/2): 4*2 overflows, the operands become 2/1 and 3/2 with the
\* terms 4 and 3, whose sum overflows again
EscalatesOnceWitness ==
  /\ op = "add_mut"
  /\ px = CheckRdc(4, 2)
  /\ py = CheckRdc(3, 2)
  /\ AfterPart1(StepDenom(px, py))
  /\ res.kind = "none"
  /\ res.esc = 1

\* the call returned the fraction n/d from the direct phase and left the
\* operands as they were
DirectResult(n, d) ==
  /\ res = [kind |-> "some", val |-> CheckRdc(n, d), tag |-> "", esc |-> 0]
  /\ x = px
  /\ y = py

Fits(a, b) == InT(a * b)

\* C12: when every checked sub-operation of the direct phase succeeds, mul,
\* div (the divisor's numerator not being zero), add and sub return the raw
\* combined fields, unsimplified, and leave both operands as they were,
\* in the mutable and in the shared variant.
DirectPhaseRaw ==
  /\ (op \in {"mul_mut", "mul_ref"}
      /\ Fits(px.num, py.num) /\ Fits(px.denom, py.denom)) =>
       DirectResult(px.num * py.num, px.denom * py.denom)
  /\ (op \in {"div_mut", "div_ref"} /\ py.num # ZERO
      /\ Fits(px.num, py.denom) /\ Fits(px.denom, py.num)) =>
       DirectResult(px.num * py.denom, px.denom * py.num)
  /\ (op \in {"add_mut", "add_ref"}
      /\ Fits(px.denom, py.denom) /\ Fits(px.num, py.denom)
      /\ Fits(px.denom, py.num)
      /\ InT(px.num * py.denom + px.denom * py.num)) =>
       DirectResult(px.num * py.denom + px.denom * py.num,
                    px.denom * py.denom)
  /\ (op \in {"sub_mut", "sub_ref"}
      /\ Fits(px.denom, py.denom) /\ Fits(px.num, py.denom)
      /\ Fits(px.denom, py.num)
      /\ InT(px.num * py.denom - px.denom * py.num)) =>
       DirectResult(px.num * py.denom - px.denom * py.num,
                    px.denom * py.denom)

\* (2/2) * (2/1) through mutable references returns 4/2 and keeps 2/2
DirectPhaseRawWitness ==
  /\ op = "mul_mut"
  /\ px = CheckRdc(2, 2)
  /\ py = CheckRdc(2, 1)
  /\ res.kind = "some"
  /\ res.val = CheckRdc(4, 2)
  /\ x = CheckRdc(2, 2)

\* a raw cross product of the fractions f and g overflows
RawOverflow(f, g) == ~Fits(f.num, g.denom) \/ ~Fits(f.denom, g.num)

\* the reduced comparison of the simplified fractions s and o with the gcd
\* dg of their denominators cannot be computed
ReducedFails(s, o, dg) ==
  \/ dg = None
  \/ CheckedMul(s.num, TruncDiv(o.denom, Val(dg))) = None
  \/ CheckedMul(o.num, TruncDiv(s.denom, Val(dg))) = None

ReducedFailsOn(s, o) == ReducedFails(s, o, CheckGcd(s.denom, o.denom))

\* the raw cross products of f and g overflow and the reduced comparison
\* cannot be computed either
Undecidable(f, g) ==
  RawOverflow(f, g) /\ ReducedFailsOn(simplify(f), simplify(g))

\* C13: when the raw cross products overflow and the reduced comparison
\* cannot be computed, partial_cmp returns None and eq aborts.
UndecidedComparison ==
  Undecidable(px, py) =>
    /\ op = "eq" => res.kind = "abort"
    /\ op = "partial_cmp" => res.kind = "none"

\* C14: a result of fraction * t on a valid fraction a/b represents exactly
\* (a*t)/b, and a result of fraction / t (t # 0) represents exactly
\* a/(b*t), in the direct case and after escalation.
ScalarExact ==
  /\ (Returned_({"mul_scalar_ref", "mul_scalar_mut"}) /\ Valid(px)) =>
       Represents(res.val, px.num * pt, px.denom)
  /\ (Returned_({"div_scalar_ref"}) /\ Valid(px) /\ pt # ZERO) =>
       Represents(res.val, px.num, px.denom * pt)

\* the shared variant returned what o, the outcome of the mutable variant
\* on the same operand values, returns, and left its operands alone
SameOutcome(o) ==
  /\ res.kind = o.kind
  /\ res.val = o.val
  /\ x = px
  /\ y = py

\* C15: the shared-reference variant of mul, div, add and sub returns the
\* outcome of the mutable-reference variant on the same operand values
\* (None in the same cases, otherwise identical num and denom) and leaves
\* its operands unmodified.
SharedLikeMutable ==
  /\ op = "mul_ref" => SameOutcome(MulMut(px, py))
  /\ op = "div_ref" => SameOutcome(DivMut(px, py))
  /\ op = "add_ref" => SameOutcome(AddMut(px, py))
  /\ op = "sub_ref" => SameOutcome(SubMut(px, py))

\* the divisions by a gcd of the escalated call whose operands were px, py
\* and pt
EscalatedDivsOfCall ==
  CASE op = "mul_mut" ->
         BothSimplifyDivs(px, py) \cup MulMutDivs(simplify(px), simplify(py))
    [] op = "mul_ref" ->
         BothSimplifyDivs(px, py) \cup MulRefDivs(px, simplify(py))
    [] op \in {"div_mut", "div_ref"} ->
         BothSimplifyDivs(px, py) \cup DivDivs(simplify(px), simplify(py))
    [] op = "mul_scalar_ref" ->
         SimplifyDivs(px) \cup MulScalarRefDivs(px, pt, simplify(px))
    [] op = "mul_scalar_mut" ->
         SimplifyDivs(px) \cup MulScalarMutDivs(simplify(px), pt)
    [] op = "div_scalar_ref" ->
         SimplifyDivs(px) \cup DivScalarRefDivs(px, pt, simplify(px))
    [] op \in AddSubOps ->
         BothSimplifyDivs(px, py) \cup EscalateDivs(simplify(px), simplify(py))
    [] op \in {"neg_mut", "neg_ref"} ->
         BothSimplifyDivs(ZERO_FRAC, px)
           \cup EscalateDivs(simplify(ZERO_FRAC), simplify(px))
    [] OTHER -> {}

\* the divisions by a gcd the call recorded in the state has executed
DivsOfCall ==
  CASE op = "simplify" -> SimplifyDivs(px)
    [] op = "new" -> IF is_zero(px.denom) THEN {} ELSE SimplifyDivs(px)
    [] op = "eq" /\ RawOverflow(px, py) ->
         BothSimplifyDivs(px, py) \cup EqDivs(simplify(px), simplify(py))
    [] op = "partial_cmp" /\ RawOverflow(px, py) ->
         BothSimplifyDivs(px, py) \cup CmpDivs(px, simplify(px), simplify(py))
    [] OTHER -> IF res.esc = 0 THEN {} ELSE EscalatedDivsOfCall

\* the division d is executed with a gcd that divides its dividend
ExactDivision(d) == d[2] # None => d[1] % Val(d[2]) = 0

\* C16: every division by a computed gcd that the code marks as never
\* failing is exact: the gcd divides the dividend with no remainder.
GcdDivisionsExact == \A d \in DivsOfCall : ExactDivision(d)

====
